---- MODULE Spec2Model ----
(***************************************************************************)
(* Model of src/main.cpp: the console session of the image stitcher        *)
(* (commands load / features / stitch_scans / help / exit) together with   *)
(* detect_and_show_features and stitch_images.                             *)
(*                                                                         *)
(* An image is abstracted to the number of ORB features it contains; the  *)
(* OpenCV calls (imread, ORB, BFMatcher, Stitcher, imwrite) are modelled   *)
(* at their call sites by the arguments the source passes to them.         *)
(***************************************************************************)
EXTENDS Integers, FiniteSets, Sequences, TLC

\* ---------------------------------------------------------------- bounds
\* number of commands read in one session
MaxCmds == 3
\* how many features beyond the ORB cap the richest image on disk contains
Excess == 1

\* ------------------------------------------------------ program constants
\* cv::ORB::create(5000)
MaxFeatures == 5000
\* keypoints1.size() < 50 || keypoints2.size() < 50
MinKeypointCount == 50
\* matches.size() < 10
MinMatchCount == 10

\* ------------------------------------------------------------ data model
\* a default-constructed cv::Mat (img.empty() is true)
EmptyMat == [empty |-> TRUE, features |-> 0, kind |-> "none"]

\* a decoded input image holding n detectable features
Image(n) == [empty |-> FALSE, features |-> n, kind |-> "input"]

\* the image cv::drawMatches composes for display
MatchesImage == [empty |-> FALSE, features |-> 0, kind |-> "matches"]

\* scans_result.jpg before anything has been written to it
NoFile == [empty |-> TRUE, features |-> 0, kind |-> "absent"]

\* the composed output image of the stitcher
Pano == [empty |-> FALSE, features |-> 0, kind |-> "pano"]

\* feature contents of the files the session may find on disk
FeatureCounts ==
    {0, MinMatchCount - 1, MinKeypointCount - 1, MinKeypointCount}
        \cup (MaxFeatures .. MaxFeatures + Excess)

\* what 1.png / 2.png may hold: nothing readable, or an image
Unreadable == [readable |-> FALSE, features |-> 0]

DiskContents ==
    {Unreadable} \cup {[readable |-> TRUE, features |-> n] : n \in FeatureCounts}

\* values of cv::Stitcher::Status as seen by the switch ("OTHER" = default)
Statuses == {"OK", "ERR_NEED_MORE_IMGS", "ERR_HOMOGRAPHY_EST_FAIL",
             "ERR_CAMERA_PARAMS_ADJUST_FAIL", "OTHER"}

\* outcomes of stitcher->stitch: a status, or a thrown cv::Exception
StitchOutcomes == Statuses \cup {"cv::Exception"}

Min(a, b) == IF a < b THEN a ELSE b

VARIABLES
    pc,             \* position in main / the called function
    ncmds,          \* commands read so far
    command,        \* the last line read
    img_one,        \* main: cv::Mat img_one
    img_two,        \* main: cv::Mat img_two
    images_loaded,  \* main: bool images_loaded
    keypoints1,     \* detect_and_show_features: keypoints1.size()
    keypoints2,     \* detect_and_show_features: keypoints2.size()
    descriptors1,   \* detect_and_show_features: descriptors1.rows
    descriptors2,   \* detect_and_show_features: descriptors2.rows
    matches,        \* detect_and_show_features: matches.size()
    matched,        \* matcher.match has been called in the current call
    feat_ret,       \* return value of the last detect_and_show_features
    feat_error,     \* the error it printed
    shown,          \* number of times the "Feature Matches" window was shown
    features_pair,  \* outcome of 'features' on the currently loaded pair
    images,         \* main: std::vector<cv::Mat> images
    mode,           \* stitch_images: mode argument
    status,         \* stitch_images: outcome of stitcher->stitch
    stitch_ret,     \* return value of the last stitch_images
    report,         \* the error stitch_images printed
    result,         \* main: cv::Mat result
    file,           \* scans_result.jpg on disk
    nwrites         \* number of cv::imwrite calls on scans_result.jpg

vars == <<pc, ncmds, command, img_one, img_two, images_loaded,
          keypoints1, keypoints2, descriptors1, descriptors2, matches,
          matched, feat_ret, feat_error, shown, features_pair,
          images, mode, status, stitch_ret, report, result, file, nwrites>>

session == <<img_one, img_two, images_loaded>>

featvars == <<keypoints1, keypoints2, descriptors1, descriptors2, matches,
              matched, feat_ret, feat_error>>

stitchvars == <<images, mode, status, stitch_ret, report, result>>

output == <<file, nwrites>>

\* ------------------------------------------------------------- read_image
\* cv::imread: an empty Mat when the file cannot be read
imread(c) == IF c.readable THEN Image(c.features) ELSE EmptyMat

read_image(c) ==
    LET img == imread(c)
    IN  IF img.empty THEN EmptyMat ELSE img

\* -------------------------------------------------------------- show_image
\* returns at once on an empty image, otherwise shows one window
show_image(img) == IF img.empty THEN 0 ELSE 1

\* ---------------------------------------------- detect_and_show_features
\* orb->detectAndCompute with an ORB retaining at most nfeatures features:
\* the number of keypoints, which is also the number of descriptor rows
detectAndCompute(img, nfeatures) ==
    IF img.empty THEN 0 ELSE Min(img.features, nfeatures)

NotEnoughFeatures_and(k1, k2) == k1 < MinKeypointCount /\ k2 < MinKeypointCount

NotEnoughFeatures_low(k1, k2) == k1 < 5 \/ k2 < 5

\* if (keypoints1.size() < 50 || keypoints2.size() < 50)
NotEnoughFeatures(k1, k2) == k1 < MinKeypointCount \/ k2 < MinKeypointCount

\* cv::BFMatcher(cv::NORM_HAMMING).match(descriptors1, descriptors2, matches):
\* no mask and no cross-check, so one DMatch per query descriptor whenever
\* there is a train descriptor to pair it with.  The call site is only
\* reached with both sets holding at least MinKeypointCount rows.
BFMatch(d1, d2) == IF d2 = 0 THEN 0 ELSE d1

\* sizes a match vector over d1 query descriptors can have
MatchSizes(d1) == {m \in {0, MinMatchCount - 1, MinMatchCount, d1} : m <= d1}

NotEnoughMatches_le(m) == m <= MinMatchCount

\* if (matches.size() < 10)
NotEnoughMatches(m) == m < MinMatchCount

\* ----------------------------------------------------------- stitch_images
StitchReturn_not_exc(o) == IF o = "cv::Exception" THEN "false" ELSE "true"

\* true on Stitcher::OK, false on every other status and in the catch block
StitchReturn(o) == IF o = "OK" THEN "true" ELSE "false"

\* the message of the switch over the status, or of the catch block
StatusReport(o) ==
    CASE o = "OK" -> "none"
      [] o = "ERR_NEED_MORE_IMGS" -> "Need more images or failed to find features"
      [] o = "ERR_HOMOGRAPHY_EST_FAIL" -> "Homography estimation failed"
      [] o = "ERR_CAMERA_PARAMS_ADJUST_FAIL" -> "Camera parameters adjustment failed"
      [] o = "cv::Exception" -> "OpenCV Exception caught during stitching"
      [] OTHER -> "Unknown stitching error"

\* -------------------------------------------------------------------- main
BothLoaded_or(a, b) == ~a.empty \/ ~b.empty

\* if (!img_one.empty() && !img_two.empty())
BothLoaded(a, b) == ~a.empty /\ ~b.empty

\* the state after line 130
Init ==
    /\ pc = "prompt"
    /\ ncmds = 0
    /\ command = ""
    /\ img_one = EmptyMat
    /\ img_two = EmptyMat
    /\ images_loaded = FALSE
    /\ keypoints1 = 0 /\ keypoints2 = 0
    /\ descriptors1 = 0 /\ descriptors2 = 0
    /\ matches = 0
    /\ matched = FALSE
    /\ feat_ret = "none"
    /\ feat_error = "none"
    /\ shown = 0
    /\ features_pair = "not_run"
    /\ images = <<>>
    /\ mode = "none"
    /\ status = "none"
    /\ stitch_ret = "none"
    /\ report = "none"
    /\ result = EmptyMat
    /\ file = NoFile
    /\ nwrites = 0

\* std::getline delivering the line c at the prompt
ReadCommand(c) ==
    /\ pc = "prompt"
    /\ ncmds < MaxCmds
    /\ command' = c
    /\ ncmds' = ncmds + 1

\* command == "exit": leave the loop
CmdExit ==
    /\ ReadCommand("exit")
    /\ pc' = "exited"
    /\ UNCHANGED <<session, featvars, shown, features_pair, stitchvars, output>>

\* command == "help": print the command list
CmdHelp ==
    /\ ReadCommand("help")
    /\ pc' = "prompt"
    /\ UNCHANGED <<session, featvars, shown, features_pair, stitchvars, output>>

\* any other line: "Unknown command"
CmdOther ==
    /\ ReadCommand("other")
    /\ pc' = "prompt"
    /\ UNCHANGED <<session, featvars, shown, features_pair, stitchvars, output>>

\* command == "load": read 1.png and 2.png, set images_loaded
CmdLoad ==
    /\ ReadCommand("load")
    /\ \E c1 \in DiskContents, c2 \in DiskContents :
          /\ img_one' = read_image(c1)
          /\ img_two' = read_image(c2)
    /\ images_loaded' = BothLoaded(img_one', img_two')
    /\ features_pair' = "not_run"
    /\ pc' = "prompt"
    /\ UNCHANGED <<featvars, shown, stitchvars, output>>

\* command == "features": call detect_and_show_features when images_loaded
CmdFeatures ==
    /\ ReadCommand("features")
    /\ IF images_loaded
         THEN /\ pc' = "detect"
              /\ keypoints1' = 0 /\ keypoints2' = 0
              /\ descriptors1' = 0 /\ descriptors2' = 0
              /\ matches' = 0
              /\ matched' = FALSE
              /\ feat_ret' = "none"
              /\ feat_error' = "none"
         ELSE /\ pc' = "prompt"
              /\ UNCHANGED featvars
    /\ UNCHANGED <<session, shown, features_pair, stitchvars, output>>

\* lines 44-52: ORB::create(5000) and the two detectAndCompute calls
Detect ==
    /\ pc = "detect"
    /\ keypoints1' = detectAndCompute(img_one, MaxFeatures)
    /\ descriptors1' = detectAndCompute(img_one, MaxFeatures)
    /\ keypoints2' = detectAndCompute(img_two, MaxFeatures)
    /\ descriptors2' = detectAndCompute(img_two, MaxFeatures)
    /\ pc' = "kp_check"
    /\ UNCHANGED <<ncmds, command, session, matches, matched, feat_ret,
                   feat_error, shown, features_pair, stitchvars, output>>

\* lines 55-58: too few keypoints in either image returns false
KpCheck ==
    /\ pc = "kp_check"
    /\ IF NotEnoughFeatures(keypoints1, keypoints2)
         THEN /\ feat_error' = "Not enough features detected in images"
              /\ feat_ret' = "false"
              /\ features_pair' = "failed"
              /\ pc' = "prompt"
         ELSE /\ pc' = "match"
              /\ UNCHANGED <<feat_error, feat_ret, features_pair>>
    /\ UNCHANGED <<ncmds, command, session, keypoints1, keypoints2,
                   descriptors1, descriptors2, matches, matched, shown,
                   stitchvars, output>>

\* lines 61-65: brute-force Hamming matching of descriptors1 to descriptors2
Match ==
    /\ pc = "match"
    /\ matches' = BFMatch(descriptors1, descriptors2)
    /\ matched' = TRUE
    /\ pc' = "match_check"
    /\ UNCHANGED <<ncmds, command, session, keypoints1, keypoints2,
                   descriptors1, descriptors2, feat_ret, feat_error, shown,
                   features_pair, stitchvars, output>>

\* line 63 with the match vector taken as an input of the check that
\* follows: any size a vector of matches over descriptors1 can have
MatchAny ==
    /\ pc = "match"
    /\ \E m \in MatchSizes(descriptors1) : matches' = m
    /\ matched' = TRUE
    /\ pc' = "match_check"
    /\ UNCHANGED <<ncmds, command, session, keypoints1, keypoints2,
                   descriptors1, descriptors2, feat_ret, feat_error, shown,
                   features_pair, stitchvars, output>>

\* lines 68-71: too few matches returns false
MatchCheck ==
    /\ pc = "match_check"
    /\ IF NotEnoughMatches(matches)
         THEN /\ feat_error' = "Not enough matches between images"
              /\ feat_ret' = "false"
              /\ features_pair' = "failed"
              /\ pc' = "prompt"
         ELSE /\ pc' = "draw"
              /\ UNCHANGED <<feat_error, feat_ret, features_pair>>
    /\ UNCHANGED <<ncmds, command, session, keypoints1, keypoints2,
                   descriptors1, descriptors2, matches, matched, shown,
                   stitchvars, output>>

Draw_into_input ==
    /\ pc = "draw"
    /\ img_one' = MatchesImage
    /\ shown' = shown + show_image(MatchesImage)
    /\ feat_ret' = "true"
    /\ features_pair' = "passed"
    /\ pc' = "prompt"
    /\ UNCHANGED <<ncmds, command, img_two, images_loaded, keypoints1,
                   keypoints2, descriptors1, descriptors2, matches, matched,
                   feat_error, stitchvars, output>>

\* lines 73-76: drawMatches into a fresh image, show it, return true
Draw ==
    /\ pc = "draw"
    /\ shown' = shown + show_image(MatchesImage)
    /\ feat_ret' = "true"
    /\ features_pair' = "passed"
    /\ pc' = "prompt"
    /\ UNCHANGED <<ncmds, command, session, keypoints1, keypoints2,
                   descriptors1, descriptors2, matches, matched, feat_error,
                   stitchvars, output>>

CmdStitch_gated ==
    /\ ReadCommand("stitch_scans")
    /\ IF images_loaded /\ features_pair = "passed"
         THEN /\ images' = <<img_one, img_two>>
              /\ result' = EmptyMat
              /\ mode' = "SCANS"
              /\ status' = "none"
              /\ stitch_ret' = "none"
              /\ report' = "none"
              /\ pc' = "stitch"
         ELSE /\ pc' = "prompt"
              /\ UNCHANGED stitchvars
    /\ UNCHANGED <<session, featvars, shown, features_pair, output>>

\* command == "stitch_scans": call stitch_images(images, result, SCANS)
\* when images_loaded
CmdStitch ==
    /\ ReadCommand("stitch_scans")
    /\ IF images_loaded
         THEN /\ images' = <<img_one, img_two>>
              /\ result' = EmptyMat
              /\ mode' = "SCANS"
              /\ status' = "none"
              /\ stitch_ret' = "none"
              /\ report' = "none"
              /\ pc' = "stitch"
         ELSE /\ pc' = "prompt"
              /\ UNCHANGED stitchvars
    /\ UNCHANGED <<session, featvars, shown, features_pair, output>>

\* stitch_images, lines 81-117: run the stitcher, report, return
Stitch ==
    /\ pc = "stitch"
    /\ \E o \in StitchOutcomes :
          /\ status' = o
          /\ stitch_ret' = StitchReturn(o)
          /\ report' = StatusReport(o)
          /\ result' = IF o = "OK" THEN Pano ELSE EmptyMat
    /\ pc' = "stitched"
    /\ UNCHANGED <<ncmds, command, session, featvars, shown, features_pair,
                   images, mode, output>>

AfterStitch_always ==
    /\ pc = "stitched"
    /\ file' = result
    /\ nwrites' = nwrites + 1
    /\ pc' = "prompt"
    /\ UNCHANGED <<ncmds, command, session, featvars, shown, features_pair,
                   stitchvars>>

\* lines 169-172: imwrite("scans_result.jpg", result) if stitch_images
\* returned true
AfterStitch ==
    /\ pc = "stitched"
    /\ IF stitch_ret = "true"
         THEN /\ file' = result
              /\ nwrites' = nwrites + 1
         ELSE UNCHANGED output
    /\ pc' = "prompt"
    /\ UNCHANGED <<ncmds, command, session, featvars, shown, features_pair,
                   stitchvars>>

Next ==
    \/ CmdExit
    \/ CmdHelp
    \/ CmdOther
    \/ CmdLoad
    \/ CmdFeatures
    \/ Detect
    \/ KpCheck
    \/ Match
    \/ MatchCheck
    \/ Draw
    \/ CmdStitch
    \/ Stitch
    \/ AfterStitch

Spec == Init /\ [][Next]_vars

\* the session with the match vector of line 63 taken as an arbitrary input
NextAnyMatch ==
    \/ CmdExit
    \/ CmdHelp
    \/ CmdOther
    \/ CmdLoad
    \/ CmdFeatures
    \/ Detect
    \/ KpCheck
    \/ MatchAny
    \/ MatchCheck
    \/ Draw
    \/ CmdStitch
    \/ Stitch
    \/ AfterStitch

SpecAnyMatch == Init /\ [][NextAnyMatch]_vars

TypeOK ==
    /\ pc \in {"prompt", "exited", "detect", "kp_check", "match",
               "match_check", "draw", "stitch", "stitched"}
    /\ ncmds \in 0..MaxCmds
    /\ images_loaded \in BOOLEAN
    /\ matched \in BOOLEAN
    /\ feat_ret \in {"none", "true", "false"}
    /\ stitch_ret \in {"none", "true", "false"}
    /\ status \in StitchOutcomes \cup {"none"}

\* ------------------------------------------------------------- properties

\* C1: in detect_and_show_features a match vector with fewer than 10
\* entries makes the function return false with the "not enough matches"
\* error before drawMatches / show_image run, and a vector with at least
\* 10 entries never produces that failure but goes on to the drawing step.
C1_InsufficientMatchesFailFast ==
    /\ [][pc = "match_check" =>
            IF matches < MinMatchCount
              THEN /\ pc' = "prompt"
                   /\ feat_ret' = "false"
                   /\ feat_error' = "Not enough matches between images"
                   /\ shown' = shown
              ELSE /\ pc' = "draw"
                   /\ feat_ret' # "false"
                   /\ feat_error' # "Not enough matches between images"]_vars
    /\ [](pc = "draw" => matches >= MinMatchCount)
    /\ [](feat_error = "Not enough matches between images"
            => matches < MinMatchCount /\ feat_ret = "false")

\* the matcher has run, delivered fewer than 10 matches and the function
\* has returned false with nothing shown
C1_Witness ==
    /\ pc = "prompt"
    /\ matched
    /\ matches < MinMatchCount
    /\ feat_ret = "false"
    /\ feat_error = "Not enough matches between images"
    /\ shown = 0

\* C2: if either image has fewer than 50 keypoints the call fails with the
\* "not enough features" error and the matcher is never called; the matcher
\* is called exactly when both images have at least 50 keypoints.
C2_InsufficientFeaturesNoMatching ==
    /\ [][pc = "kp_check" =>
            IF keypoints1 < MinKeypointCount \/ keypoints2 < MinKeypointCount
              THEN /\ pc' = "prompt"
                   /\ feat_ret' = "false"
                   /\ feat_error' = "Not enough features detected in images"
                   /\ ~matched'
              ELSE /\ pc' = "match"
                   /\ feat_error' = "none"]_vars
    /\ [][pc = "match" => matched']_vars
    /\ [](matched => /\ keypoints1 >= MinKeypointCount
                     /\ keypoints2 >= MinKeypointCount)
    /\ [](feat_error = "Not enough features detected in images" => ~matched)

\* image 1 is rich enough, image 2 is not: the call failed without matching
C2_Witness ==
    /\ pc = "prompt"
    /\ keypoints1 >= MinKeypointCount
    /\ keypoints2 < MinKeypointCount
    /\ feat_ret = "false"
    /\ feat_error = "Not enough features detected in images"
    /\ ~matched

\* C3: stitch_images returns true exactly when the stitcher status is OK;
\* every other outcome returns false and is reported as exactly one of the
\* need-more-images, homography, camera-parameters or unknown errors
\* according to its status, and a thrown cv::Exception is caught and also
\* ends in a false return.
C3_TypedStitchOutcome ==
    /\ [](pc = "stitched" =>
            /\ stitch_ret \in {"true", "false"}
            /\ (stitch_ret = "true") <=> (status = "OK")
            /\ (status = "OK") <=> (report = "none")
            /\ (status = "ERR_NEED_MORE_IMGS")
                <=> (report = "Need more images or failed to find features")
            /\ (status = "ERR_HOMOGRAPHY_EST_FAIL")
                <=> (report = "Homography estimation failed")
            /\ (status = "ERR_CAMERA_PARAMS_ADJUST_FAIL")
                <=> (report = "Camera parameters adjustment failed")
            /\ (status = "OTHER") <=> (report = "Unknown stitching error")
            /\ (status = "cv::Exception") => (stitch_ret = "false"))
    /\ [][pc = "stitch" => pc' = "stitched"]_vars

\* the stitcher threw, and stitch_images returned false to main
C3_Witness ==
    /\ pc = "stitched"
    /\ status = "cv::Exception"
    /\ stitch_ret = "false"
    /\ report = "OpenCV Exception caught during stitching"

\* C4 as stated: stitch_images only ever runs on a pair for which the
\* 'features' check has run and passed.
C4_StitchOnlyAfterFeaturesPassed ==
    pc = "stitch" => features_pair = "passed"

\* C4 as amended: a stitch_scans command enters stitch_images exactly when
\* images_loaded is true, on the loaded pair, whatever the outcome of
\* 'features' on that pair was (passed, failed or never run).
C4_StitchGatedByLoadOnly ==
    /\ [][(pc = "prompt" /\ ncmds' = ncmds + 1 /\ command' = "stitch_scans")
            => /\ (pc' = "stitch") <=> images_loaded
               /\ features_pair' = features_pair
               /\ (pc' = "stitch" => images' = <<img_one, img_two>>)]_vars
    /\ [](pc = "stitch" => features_pair \in {"not_run", "failed", "passed"})

\* stitch_images is running on a pair whose 'features' check failed
C4_Witness ==
    /\ pc = "stitch"
    /\ images_loaded
    /\ features_pair = "failed"
    /\ images = <<img_one, img_two>>

\* C7: 'features' and 'stitch_scans' (successful or not) leave img_one,
\* img_two and images_loaded unchanged; only the load command changes them,
\* and the stitched result is an image distinct from both inputs.
C7_InputsNeverMutated ==
    /\ [][session' # session
            => (pc = "prompt" /\ command' = "load" /\ ncmds' = ncmds + 1)]_vars
    /\ [][(pc # "prompt" \/ command' \in {"features", "stitch_scans"})
            => session' = session]_vars
    /\ [](~result.empty => result # img_one /\ result # img_two)
    /\ [](pc \in {"stitch", "stitched"} => images = <<img_one, img_two>>)

\* a features call has shown its matches and a later stitch succeeded,
\* with the loaded pair still in place
C7_Witness ==
    /\ pc = "stitched"
    /\ status = "OK"
    /\ shown > 0
    /\ images_loaded
    /\ ~result.empty
    /\ ~img_one.empty /\ ~img_two.empty

\* C8: scans_result.jpg is written only by the step that directly follows a
\* stitch_images call that returned true on the loaded pair in SCANS mode;
\* no other step, in particular a failed stitch or a stitch_scans without
\* loaded images, writes the file.
C8_WriteOnlyAfterSuccess ==
    /\ [][(file' # file \/ nwrites' # nwrites)
            => /\ pc = "stitched"
               /\ stitch_ret = "true"
               /\ status = "OK"
               /\ mode = "SCANS"
               /\ images_loaded
               /\ images = <<img_one, img_two>>
               /\ file' = result
               /\ result = Pano]_vars
    /\ [][(pc = "stitched" /\ stitch_ret # "true") => output' = output]_vars
    /\ [][(pc = "prompt" /\ ~images_loaded) => output' = output]_vars

\* the file has been written after a successful stitch
C8_Witness ==
    /\ pc = "prompt"
    /\ nwrites = 1
    /\ file = Pano
    /\ stitch_ret = "true"
    /\ command = "stitch_scans"

\* C9: images_loaded is true only if both images are non-empty, each load
\* sets it to whether both reads succeeded (so a failing load after a
\* successful one resets it), and detect_and_show_features / stitch_images
\* run only while images_loaded is true, never on an empty image.
C9_LoadedSessionInvariant ==
    /\ [](images_loaded => ~img_one.empty /\ ~img_two.empty)
    /\ [][(pc = "prompt" /\ command' = "load" /\ ncmds' = ncmds + 1)
            => images_loaded' = (~img_one'.empty /\ ~img_two'.empty)]_vars
    /\ [](pc \in {"detect", "kp_check", "match", "match_check", "draw",
                  "stitch", "stitched"}
            => images_loaded /\ ~img_one.empty /\ ~img_two.empty)

\* a pair was loaded and stitched to the file, then a load in which the
\* second file could not be read reset images_loaded
C9_Witness ==
    /\ nwrites > 0
    /\ ~images_loaded
    /\ ~img_one.empty
    /\ img_two.empty
    /\ command = "load"

\* C10: in detect_and_show_features the "not enough matches" failure is
\* unreachable: when the keypoint check passes the matcher returns one match
\* per descriptor of image 1, so matches = keypoints1 >= 50 >= 10, the call
\* goes on to draw and returns true; the only failure is the keypoint one.
C10_MatchFailureUnreachable ==
    /\ [](feat_error # "Not enough matches between images")
    /\ [](feat_ret = "false"
            => feat_error = "Not enough features detected in images")
    /\ [](pc = "match_check" => /\ matches = keypoints1
                                /\ matches >= MinKeypointCount
                                /\ matches >= MinMatchCount)
    /\ [][pc = "match_check" => pc' = "draw"]_vars
    /\ [][pc = "draw" => feat_ret' = "true"]_vars

\* the keypoint check has just passed with exactly 50 keypoints in image 1
\* and the matcher has returned
C10_Witness ==
    /\ pc = "match_check"
    /\ matched
    /\ keypoints1 = MinKeypointCount
    /\ matches = MinKeypointCount

====
